---- MODULE Spec2Model ----
(***************************************************************************)
(* Model of the batch dispatcher of content-guardian-action: the error     *)
(* classifier and retry executor of utils/error-utils, the concurrency     *)
(* limiter of utils/batch-utils, analyzeFiles and analyzeFilesBatch of     *)
(* services/api-service, the strict-mode rule of the action runner and the *)
(* post-analysis service.  Each component has its own specification over   *)
(* its own group of variables; the other groups stay at their idle value.  *)
(***************************************************************************)
EXTENDS Integers, Sequences, FiniteSets, TLC

\* ------------------------------------------------------------------ bounds
\* Longest outcome list handed to checkForRequestEndingError.
MaxResults == 3
\* Largest attempt ceiling (config.maxRetries) explored.
MaxRetries == 3
\* Largest attempt number whose backoff delay is computed.
MaxAttempt == 5
\* Largest baseDelay, backoffMultiplier and maxDelay explored.
MaxBaseDelay == 2
MaxMultiplier == 3
MaxDelayCap == 5
\* Most items handed to processWithConcurrency, and the largest limit.
MaxItems == 4
MaxLimit == 3
\* Most files handed to analyzeFilesBatch, the largest maxConcurrent of the
\* toolkit's batch, and the most progress checks of the interval timer.
MaxFiles == 3
MaxConcurrent == 2
MaxTicks == 2
\* analyzeFiles processes lists of at most this many files one by one.
SequentialLimit == 3
\* Most files the discovery strategy hands to runAction.
MaxDiscovered == 3
\* Most analysis results handed to handlePostAnalysisActions.
MaxPostResults == 2

VARIABLES
  \* error classifier (error-utils: isRequestEndingError, checkForRequestEndingError)
  cMode, cErr, cFailed, cResults, cPc, cIsEnding, cCheck,
  \* retry executor (error-utils: withRetry)
  rCfg, rPc, rAttempt, rLastError, rCalls, rDelay, rTrace, rFailures, rReturn, rThrown,
  \* backoff schedule (error-utils: calculateBackoffDelay for attempts 1, 2, ...)
  kCfg, kDelays,
  \* concurrency limiter (batch-utils: processWithConcurrency and its Semaphore)
  lLimit, lItems, lPermits, lWaitQueue, lState, lResults, lPc, lReturn,
  \* how often the processor was invoked per item, and the items in settle order
  lCalls, lOrder,
  \* batch orchestrator (api-service: analyzeFilesBatch) and the toolkit's batch
  bFiles, bReadable, bMaxConcurrent, bFileContents, bPc, bProgress, bCancelled,
  bPromise, bTimer, bTicks, bCancelCalls, bFatalObserved, bProgressLogs,
  bOutcome, bReturn, bThrown,
  \* the entry point called, the sequential loop of analyzeFiles, and what the
  \* call has done to its collaborators: reader calls, styleCheck calls,
  \* styleBatchCheckRequests calls and the log events other than progress lines
  bEntry, bSeqIdx, bSeqResults, bReadCalls, bCheckCalls, bBatchCalls, bLog,
  \* the events of the sequential loop in order, and the exception that entered
  \* the catch block of analyzeFilesBatch
  bSeqTrace, bCaught,
  \* action runner (action-runner: runAction; action-config: getBooleanInput)
  aInput, aEnv, aFiles, aPc, aStrict, aResults, aFailed, aOutput,
  \* result loop of analyzeFilesBatch on a final progress list in any order
  fFiles, fReadable, fFileContents, fFinal, fReturn, fPc,
  \* post-analysis service (handlePostAnalysisActions)
  pEvent, pResults, pAddCommitStatus, pIsPullRequest, pPrNumber, pPc, pCalls, pLog,
  pOutcome, pSettled

cVars == <<cMode, cErr, cFailed, cResults, cPc, cIsEnding, cCheck>>
rVars == <<rCfg, rPc, rAttempt, rLastError, rCalls, rDelay, rTrace, rFailures, rReturn, rThrown>>
kVars == <<kCfg, kDelays>>
lVars == <<lLimit, lItems, lPermits, lWaitQueue, lState, lResults, lPc, lReturn, lCalls, lOrder>>
bVars ==
  <<bFiles, bReadable, bMaxConcurrent, bFileContents, bPc, bProgress, bCancelled,
    bPromise, bTimer, bTicks, bCancelCalls, bFatalObserved, bProgressLogs,
    bOutcome, bReturn, bThrown,
    bEntry, bSeqIdx, bSeqResults, bReadCalls, bCheckCalls, bBatchCalls, bLog,
    bSeqTrace, bCaught>>
\* The sequential loop's and the collaborators' part of the batch state.
bCallVars ==
  <<bEntry, bSeqIdx, bSeqResults, bReadCalls, bCheckCalls, bBatchCalls, bLog,
    bSeqTrace, bCaught>>
aVars == <<aInput, aEnv, aFiles, aPc, aStrict, aResults, aFailed, aOutput>>
fVars == <<fFiles, fReadable, fFileContents, fFinal, fReturn, fPc>>
pVars ==
  <<pEvent, pResults, pAddCommitStatus, pIsPullRequest, pPrNumber, pPc, pCalls, pLog,
    pOutcome, pSettled>>
vars == <<cVars, rVars, kVars, lVars, bVars, aVars, fVars, pVars>>
\* What each component leaves alone: the other components' variables.
cOthers == <<rVars, kVars, lVars, bVars, aVars, fVars, pVars>>
rOthers == <<cVars, kVars, lVars, bVars, aVars, fVars, pVars>>
kOthers == <<cVars, rVars, lVars, bVars, aVars, fVars, pVars>>
lOthers == <<cVars, rVars, kVars, bVars, aVars, fVars, pVars>>
bOthers == <<cVars, rVars, kVars, lVars, aVars, fVars, pVars>>
aOthers == <<cVars, rVars, kVars, lVars, bVars, fVars, pVars>>
fOthers == <<cVars, rVars, kVars, lVars, bVars, aVars, pVars>>
pOthers == <<cVars, rVars, kVars, lVars, bVars, aVars, fVars>>

\* ------------------------------------------------------------ error values
\* A JavaScript value in an error position.  js: "undefined", "null" or
\* "value" (anything truthy); isError: instanceof Error; type: the toolkit
\* ApiError's type tag ("none" when the property is missing); codeKind/code: typeof statusCode and its value;
\* message: the message of an Error, the string form of any other value;
\* id: the identity of the object.
ErrorTypeTags == {"UNAUTHORIZED_ERROR", "INTERNAL_SERVER_ERROR", "VALIDATION_ERROR", "none"}
StatusCodes == {400, 401, 404, 499, 500, 503}

Value(isError, type, codeKind, code, message, id) ==
  [js |-> "value", isError |-> isError, type |-> type, codeKind |-> codeKind,
   code |-> code, message |-> message, id |-> id]

Absent ==
  [js |-> "undefined", isError |-> FALSE, type |-> "none", codeKind |-> "undefined",
   code |-> 0, message |-> "", id |-> 0]

Null == [Absent EXCEPT !.js = "null"]

\* new Error(text): a fresh Error object (identity 0 is never an input's) that
\* carries neither a type tag nor a statusCode.
NewError(text) == Value(TRUE, "none", "undefined", 0, text, 0)

\* Every shape of error the classifier is tried on.
ErrorInputs ==
  {Value(isE, t, k, c, "m", 1) :
     isE \in BOOLEAN, t \in ErrorTypeTags, k \in {"number", "string"}, c \in StatusCodes}
  \cup {Value(isE, t, "undefined", 0, "m", 1) : isE \in BOOLEAN, t \in ErrorTypeTags}
  \cup {Absent, Null}

\* --------------------------------------------------------- error classifier
isRequestEndingError_All4xx(error) ==
  IF error.js # "value" THEN FALSE
  ELSE LET typeIsEnding == error.type \in {"UNAUTHORIZED_ERROR", "INTERNAL_SERVER_ERROR"}
           statusCodeIsEnding == error.codeKind = "number" /\ error.code >= 400
       IN  typeIsEnding \/ statusCodeIsEnding

isRequestEndingError(error) ==
  IF error.js # "value" THEN FALSE
  ELSE LET typeIsEnding == error.type \in {"UNAUTHORIZED_ERROR", "INTERNAL_SERVER_ERROR"}
           statusCodeIsEnding ==
             error.codeKind = "number" /\ (error.code = 401 \/ error.code >= 500)
       IN  typeIsEnding \/ statusCodeIsEnding

\* A BatchResult of the toolkit: index, status, the error when failed and the
\* result when completed (0: no result; otherwise the number of the request
\* whose scores it holds).
Outcome(index, status, error, result) ==
  [index |-> index, status |-> status, error |-> error, result |-> result]

NotFound == [found |-> FALSE, error |-> Null]

RECURSIVE ScanFrom(_, _)
ScanFrom(results, i) ==
  IF i > Len(results) THEN NotFound
  ELSE IF results[i].status = "failed" /\ isRequestEndingError(results[i].error)
       THEN [found |-> TRUE, error |-> results[i].error]
       ELSE ScanFrom(results, i + 1)

RECURSIVE ScanLast(_, _)
ScanLast(results, i) ==
  IF i < 1 THEN NotFound
  ELSE IF results[i].status = "failed" /\ isRequestEndingError(results[i].error)
       THEN [found |-> TRUE, error |-> results[i].error]
       ELSE ScanLast(results, i - 1)

RECURSIVE ScanAnyStatus(_, _)
ScanAnyStatus(results, i) ==
  IF i > Len(results) THEN NotFound
  ELSE IF isRequestEndingError(results[i].error)
       THEN [found |-> TRUE, error |-> results[i].error]
       ELSE ScanAnyStatus(results, i + 1)

checkForRequestEndingError_AnyStatus(failed, results) ==
  IF failed > 0 THEN ScanAnyStatus(results, 1) ELSE NotFound

checkForRequestEndingError_Last(failed, results) ==
  IF failed > 0 THEN ScanLast(results, Len(results)) ELSE NotFound

checkForRequestEndingError_NoGuard(failed, results) ==
  ScanFrom(results, 1)

checkForRequestEndingError(failed, results) ==
  IF failed > 0 THEN ScanFrom(results, 1) ELSE NotFound

\* The outcome lists the check is tried on: the toolkit keeps results[i].index = i
\* (0-based there, 1-based here); the error at position i is object i.
OutcomeStatuses == {"in-progress", "completed", "failed"}
OutcomeErrors ==
  {Absent,
   Value(TRUE, "VALIDATION_ERROR", "number", 400, "m", 0),
   Value(TRUE, "UNAUTHORIZED_ERROR", "number", 401, "m", 0),
   Value(TRUE, "none", "number", 500, "m", 0)}

WithId(e, i) == IF e.js = "value" THEN [e EXCEPT !.id = i] ELSE e

\* The outcome list with the given statuses and errors.
OutcomeList(n, st, er) ==
  [i \in 1..n |-> Outcome(i, st[i], WithId(er[i], i), IF st[i] = "completed" THEN i ELSE 0)]

Unset == "unset"

CInit ==
  /\ cMode \in {"classify", "check"}
  /\ cPc = "input"
  /\ cIsEnding = Unset
  /\ cCheck = Unset
  /\ \/ /\ cMode = "classify"
        /\ cErr \in ErrorInputs
        /\ cFailed = 0
        /\ cResults = <<>>
     \/ /\ cMode = "check"
        /\ cErr = Absent
        /\ cFailed \in 0..MaxResults
        /\ \E n \in 0..MaxResults :
             \E st \in [1..n -> OutcomeStatuses], er \in [1..n -> OutcomeErrors] :
               cResults = OutcomeList(n, st, er)

CIdle ==
  /\ cMode = "idle" /\ cErr = Absent /\ cFailed = 0 /\ cResults = <<>>
  /\ cPc = "idle" /\ cIsEnding = Unset /\ cCheck = Unset

ClassifyError ==
  /\ cMode = "classify" /\ cPc = "input"
  /\ cIsEnding' = isRequestEndingError(cErr)
  /\ cPc' = "done"
  /\ UNCHANGED <<cMode, cErr, cFailed, cResults, cCheck>> /\ UNCHANGED cOthers

CheckEnding ==
  /\ cMode = "check" /\ cPc = "input"
  /\ cCheck' = checkForRequestEndingError(cFailed, cResults)
  /\ cPc' = "done"
  /\ UNCHANGED <<cMode, cErr, cFailed, cResults, cIsEnding>> /\ UNCHANGED cOthers

\* --------------------------------------------------------- retry executor
Min(a, b) == IF a <= b THEN a ELSE b

RECURSIVE Pow(_, _)
Pow(base, exp) == IF exp <= 0 THEN 1 ELSE base * Pow(base, exp - 1)

calculateBackoffDelay_ZeroBased(attempt, config) ==
  LET delay == config.baseDelay * Pow(config.backoffMultiplier, attempt)
  IN  Min(delay, config.maxDelay)

calculateBackoffDelay_NoClamp(attempt, config) ==
  config.baseDelay * Pow(config.backoffMultiplier, attempt - 1)

calculateBackoffDelay(attempt, config) ==
  LET delay == config.baseDelay * Pow(config.backoffMultiplier, attempt - 1)
  IN  Min(delay, config.maxDelay)

\* The retry configurations explored; maxRetries 0 and -1 are the degenerate
\* ceilings.
RetryConfigs ==
  {[maxRetries |-> n, baseDelay |-> b, maxDelay |-> c, backoffMultiplier |-> m] :
     n \in (-1)..MaxRetries, b \in 1..MaxBaseDelay, c \in 1..MaxDelayCap, m \in 2..MaxMultiplier}

\* What operation() may reject with on attempt k: an Error object k with message
\* "a" or "b", or the string "s" (not an Error).
OpFailures(k) ==
  {Value(TRUE, "none", "undefined", 0, "a", k),
   Value(TRUE, "none", "undefined", 0, "b", k),
   Value(FALSE, "none", "undefined", 0, "s", k)}

Event(ev, attempt, delay, message) ==
  [ev |-> ev, attempt |-> attempt, delay |-> delay, message |-> message]

\* error instanceof Error ? error : new Error(String(error))
Normalize_Raw(error) == error

Normalize(error) == IF error.isError THEN error ELSE NewError(error.message)

RIdle ==
  /\ rCfg = [maxRetries |-> 0, baseDelay |-> 1, maxDelay |-> 1, backoffMultiplier |-> 2]
  /\ rPc = "idle" /\ rAttempt = 0 /\ rLastError = Null /\ rCalls = 0 /\ rDelay = 0
  /\ rTrace = <<>> /\ rFailures = <<>> /\ rReturn = 0 /\ rThrown = Absent

RInit ==
  /\ rCfg \in RetryConfigs
  /\ rPc = "idle" /\ rAttempt = 0 /\ rLastError = Null /\ rCalls = 0 /\ rDelay = 0
  /\ rTrace = <<>> /\ rFailures = <<>> /\ rReturn = 0 /\ rThrown = Absent

EnterLoop_OneMore(attempt) ==
  /\ rAttempt' = attempt
  /\ IF attempt <= rCfg.maxRetries + 1
     THEN /\ rPc' = "await"
          /\ rCalls' = rCalls + 1
          /\ rTrace' = Append(rTrace, Event("call", attempt, 0, ""))
          /\ UNCHANGED rThrown
     ELSE /\ rPc' = "thrown"
          /\ rThrown' = IF rLastError.js = "value" THEN rLastError ELSE NewError("Operation failed")
          /\ UNCHANGED <<rCalls, rTrace>>

\* The head of the for loop with the given attempt number: the operation is
\* called when attempt <= maxRetries, and the loop is left for the final throw
\* otherwise.
EnterLoop(attempt) ==
  /\ rAttempt' = attempt
  /\ IF attempt <= rCfg.maxRetries
     THEN /\ rPc' = "await"
          /\ rCalls' = rCalls + 1
          /\ rTrace' = Append(rTrace, Event("call", attempt, 0, ""))
          /\ UNCHANGED rThrown
     ELSE /\ rPc' = "thrown"
          /\ rThrown' = IF rLastError.js = "value" THEN rLastError ELSE NewError("Operation failed")
          /\ UNCHANGED <<rCalls, rTrace>>

\* withRetry is called: attempt = 1.
RetryStart ==
  /\ rPc = "idle"
  /\ EnterLoop(1)
  /\ UNCHANGED <<rCfg, rLastError, rDelay, rFailures, rReturn>> /\ UNCHANGED rOthers

\* operation() resolves: return await operation().
OpSucceeds_ThenDelay ==
  /\ rPc = "await"
  /\ rReturn' = rAttempt
  /\ rPc' = "returned"
  /\ rTrace' = Append(rTrace, Event("delay", rAttempt, calculateBackoffDelay(rAttempt, rCfg), ""))
  /\ UNCHANGED <<rCfg, rAttempt, rLastError, rCalls, rDelay, rFailures, rThrown>>
  /\ UNCHANGED rOthers

OpSucceeds ==
  /\ rPc = "await"
  /\ rReturn' = rAttempt
  /\ rPc' = "returned"
  /\ UNCHANGED <<rCfg, rAttempt, rLastError, rCalls, rDelay, rTrace, rFailures, rThrown>>
  /\ UNCHANGED rOthers

\* operation() rejects with error: the catch block up to its throw or its await.
OpFails_KeepFirst(error) ==
  /\ rPc = "await"
  /\ rFailures' = Append(rFailures, error)
  /\ rLastError' = IF rLastError.js = "value" THEN rLastError ELSE Normalize(error)
  /\ IF rAttempt = rCfg.maxRetries
     THEN /\ rTrace' = Append(rTrace, Event("error", rAttempt, 0, rLastError'.message))
          /\ rThrown' = rLastError'
          /\ rPc' = "thrown"
          /\ UNCHANGED rDelay
     ELSE LET backoffDelay == calculateBackoffDelay(rAttempt, rCfg)
          IN  /\ rTrace' = rTrace \o
                   <<Event("warning", rAttempt, backoffDelay, rLastError'.message),
                     Event("delay", rAttempt, backoffDelay, "")>>
              /\ rDelay' = backoffDelay
              /\ rPc' = "delay"
              /\ UNCHANGED rThrown
  /\ UNCHANGED <<rCfg, rAttempt, rCalls, rReturn>> /\ UNCHANGED rOthers

OpFails_WarnOnLast(error) ==
  /\ rPc = "await"
  /\ rFailures' = Append(rFailures, error)
  /\ rLastError' = Normalize(error)
  /\ IF rAttempt > rCfg.maxRetries
     THEN /\ rTrace' = Append(rTrace, Event("error", rAttempt, 0, rLastError'.message))
          /\ rThrown' = rLastError'
          /\ rPc' = "thrown"
          /\ UNCHANGED rDelay
     ELSE LET backoffDelay == calculateBackoffDelay(rAttempt, rCfg)
          IN  /\ rTrace' = rTrace \o
                   <<Event("warning", rAttempt, backoffDelay, rLastError'.message),
                     Event("delay", rAttempt, backoffDelay, "")>>
              /\ rDelay' = backoffDelay
              /\ rPc' = "delay"
              /\ UNCHANGED rThrown
  /\ UNCHANGED <<rCfg, rAttempt, rCalls, rReturn>> /\ UNCHANGED rOthers

OpFails(error) ==
  /\ rPc = "await"
  /\ rFailures' = Append(rFailures, error)
  /\ rLastError' = Normalize(error)
  /\ IF rAttempt = rCfg.maxRetries
     THEN /\ rTrace' = Append(rTrace, Event("error", rAttempt, 0, rLastError'.message))
          /\ rThrown' = rLastError'
          /\ rPc' = "thrown"
          /\ UNCHANGED rDelay
     ELSE LET backoffDelay == calculateBackoffDelay(rAttempt, rCfg)
          IN  /\ rTrace' = rTrace \o
                   <<Event("warning", rAttempt, backoffDelay, rLastError'.message),
                     Event("delay", rAttempt, backoffDelay, "")>>
              /\ rDelay' = backoffDelay
              /\ rPc' = "delay"
              /\ UNCHANGED rThrown
  /\ UNCHANGED <<rCfg, rAttempt, rCalls, rReturn>> /\ UNCHANGED rOthers

\* The timer of delay(backoffDelay) fires: attempt++ and the loop head.
DelayElapsed ==
  /\ rPc = "delay"
  /\ EnterLoop(rAttempt + 1)
  /\ rDelay' = 0
  /\ UNCHANGED <<rCfg, rLastError, rFailures, rReturn>> /\ UNCHANGED rOthers

RetryNext ==
  \/ RetryStart
  \/ OpSucceeds
  \/ \E error \in OpFailures(rAttempt) : OpFails(error)
  \/ DelayElapsed

\* -------------------------------------------------------- backoff schedule
\* The delays calculateBackoffDelay yields for attempts 1, 2, ... under one
\* configuration: kDelays[k] is the delay of attempt k.
KIdle == kCfg = [maxRetries |-> 0, baseDelay |-> 1, maxDelay |-> 1, backoffMultiplier |-> 2]
         /\ kDelays = <<>>

KInit == kCfg \in RetryConfigs /\ kDelays = <<>>

NextDelay ==
  /\ Len(kDelays) < MaxAttempt
  /\ kDelays' = Append(kDelays, calculateBackoffDelay(Len(kDelays) + 1, kCfg))
  /\ UNCHANGED kCfg /\ UNCHANGED kOthers

\* ------------------------------------------------------ concurrency limiter
\* processWithConcurrency(items, processor, maxConcurrent): every item's task
\* acquires a permit, invokes the processor, and releases the permit when the
\* processor has settled, whether it resolved or rejected.  lState[i] is "new"
\* (acquire not yet called), "waiting" (in the FIFO wait queue), "holding"
\* (permit held, processor not yet invoked), "running" (processor invoked and
\* not settled) or "done".
LIdle ==
  /\ lLimit = 1 /\ lItems = 0 /\ lPermits = 1 /\ lWaitQueue = <<>>
  /\ lState = <<>> /\ lResults = <<>> /\ lPc = "idle" /\ lReturn = <<>>
  /\ lCalls = <<>> /\ lOrder = <<>>

LInit ==
  /\ lLimit \in 1..MaxLimit
  /\ lItems \in 0..MaxItems
  /\ lPermits = lLimit
  /\ lWaitQueue = <<>>
  /\ lState = [i \in 1..lItems |-> "new"]
  /\ lResults = [i \in 1..lItems |-> "none"]
  /\ lPc = "running"
  /\ lReturn = <<>>
  /\ lCalls = [i \in 1..lItems |-> 0]
  /\ lOrder = <<>>

\* acquire(): take a permit when one is available, join the wait queue otherwise.
LAcquire(i) ==
  /\ lPc = "running" /\ lState[i] = "new"
  /\ IF lPermits > 0
     THEN /\ lPermits' = lPermits - 1
          /\ lState' = [lState EXCEPT ![i] = "holding"]
          /\ UNCHANGED lWaitQueue
     ELSE /\ lWaitQueue' = Append(lWaitQueue, i)
          /\ lState' = [lState EXCEPT ![i] = "waiting"]
          /\ UNCHANGED lPermits
  /\ UNCHANGED <<lLimit, lItems, lResults, lPc, lReturn, lCalls, lOrder>> /\ UNCHANGED lOthers

\* The holder of a permit invokes the processor on its item.
LInvoke(i) ==
  /\ lPc = "running" /\ lState[i] = "holding"
  /\ lState' = [lState EXCEPT ![i] = "running"]
  /\ lCalls' = [lCalls EXCEPT ![i] = @ + 1]
  /\ UNCHANGED <<lLimit, lItems, lPermits, lWaitQueue, lResults, lPc, lReturn, lOrder>>
  /\ UNCHANGED lOthers

\* release(): the permit goes to the first waiter when there is one, and back
\* to the store otherwise.
Release_Leaky(state) ==
  IF lWaitQueue # <<>>
  THEN /\ lWaitQueue' = Tail(lWaitQueue)
       /\ lState' = [state EXCEPT ![Head(lWaitQueue)] = "holding"]
       /\ lPermits' = lPermits + 1
  ELSE /\ lPermits' = lPermits + 1
       /\ lState' = state
       /\ UNCHANGED lWaitQueue

Release(state) ==
  IF lWaitQueue # <<>>
  THEN /\ lWaitQueue' = Tail(lWaitQueue)
       /\ lState' = [state EXCEPT ![Head(lWaitQueue)] = "holding"]
       /\ UNCHANGED lPermits
  ELSE /\ lPermits' = lPermits + 1
       /\ lState' = state
       /\ UNCHANGED lWaitQueue

\* The processor settles for item i (a value, undefined, or a rejection): the
\* result is recorded at the item's index and the permit is released.
LSettle_LeakOnReject(i, outcome) ==
  /\ lPc = "running" /\ lState[i] = "running"
  /\ lResults' = [lResults EXCEPT ![i] = outcome]
  /\ IF outcome = "rejected"
     THEN lState' = [lState EXCEPT ![i] = "done"] /\ UNCHANGED <<lPermits, lWaitQueue>>
     ELSE Release([lState EXCEPT ![i] = "done"])
  /\ lOrder' = Append(lOrder, i)
  /\ UNCHANGED <<lLimit, lItems, lPc, lReturn, lCalls>> /\ UNCHANGED lOthers

LSettle(i, outcome) ==
  /\ lPc = "running" /\ lState[i] = "running"
  /\ lResults' = [lResults EXCEPT ![i] = outcome]
  /\ Release([lState EXCEPT ![i] = "done"])
  /\ lOrder' = Append(lOrder, i)
  /\ UNCHANGED <<lLimit, lItems, lPc, lReturn, lCalls>> /\ UNCHANGED lOthers

RECURSIVE DefinedResults(_, _)
DefinedResults(results, i) ==
  IF i > Len(results) THEN <<>>
  ELSE (IF results[i] = "value" THEN <<i>> ELSE <<>>) \o DefinedResults(results, i + 1)

\* Every task has settled: the defined results are returned in input order.
LFinish_CompletionOrder ==
  /\ lPc = "running"
  /\ \A i \in 1..lItems : lState[i] = "done"
  /\ lReturn' = SelectSeq(lOrder, LAMBDA i : lResults[i] = "value")
  /\ lPc' = "returned"
  /\ UNCHANGED <<lLimit, lItems, lPermits, lWaitQueue, lState, lResults, lCalls, lOrder>>
  /\ UNCHANGED lOthers

LFinish ==
  /\ lPc = "running"
  /\ \A i \in 1..lItems : lState[i] = "done"
  /\ lReturn' = DefinedResults(lResults, 1)
  /\ lPc' = "returned"
  /\ UNCHANGED <<lLimit, lItems, lPermits, lWaitQueue, lState, lResults, lCalls, lOrder>>
  /\ UNCHANGED lOthers

LimiterNext ==
  \/ \E i \in 1..lItems : LAcquire(i)
  \/ \E i \in 1..lItems : LInvoke(i)
  \/ \E i \in 1..lItems : \E outcome \in {"value", "undefined", "rejected"} : LSettle(i, outcome)
  \/ LFinish

\* -------------------------------------------------------- batch orchestrator
\* processFileReading(files, readFileContent): the files whose content is not
\* null, in input order.  Files are numbered 1..bFiles; bReadable are those
\* readFileContent yields content for.
processFileReading(files, readable) ==
  SelectSeq([i \in 1..files |-> i], LAMBDA f : f \in readable)

\* The BatchProgress of styleBatchCheckRequests(requests, ...) when it returns.
InitialProgress(total) ==
  [total |-> total, completed |-> 0, failed |-> 0, inProgress |-> 0, pending |-> total,
   results |-> [i \in 1..total |-> Outcome(i, "pending", Absent, 0)]]

EmptyProgress == InitialProgress(0)

\* What a job of the batch may fail with: an ordinary validation error, a 401
\* ApiError, or a rejection value that is no Error (an object with statusCode 500).
JobErrors(i) ==
  {Value(TRUE, "VALIDATION_ERROR", "number", 400, "validation", i),
   Value(TRUE, "UNAUTHORIZED_ERROR", "number", 401, "unauthorized", i),
   Value(FALSE, "none", "number", 500, "[object Object]", i)}

\* What the batch promise may reject with: the cancellation or a timeout, both
\* plain Errors.
CancelledError == Value(TRUE, "none", "undefined", 0, "cancelled", 100)
TimeoutError == Value(TRUE, "none", "undefined", 0, "timeout", 101)

\* What else may be thrown into the catch block: a 401 ApiError, by the batch
\* promise or by styleBatchCheckRequests itself, and an ordinary Error thrown by
\* styleBatchCheckRequests before any request is made.
UnauthorizedError == Value(TRUE, "UNAUTHORIZED_ERROR", "number", 401, "unauthorized", 102)
StartError == Value(TRUE, "none", "undefined", 0, "invalid-request", 103)

BIdle ==
  /\ bFiles = 0 /\ bReadable = {} /\ bMaxConcurrent = 1 /\ bFileContents = <<>>
  /\ bPc = "idle" /\ bProgress = EmptyProgress /\ bCancelled = FALSE
  /\ bPromise = "none" /\ bTimer = FALSE /\ bTicks = 0 /\ bCancelCalls = 0
  /\ bFatalObserved = FALSE /\ bProgressLogs = 0
  /\ bOutcome = "none" /\ bReturn = <<>> /\ bThrown = Absent
  /\ bEntry = "none" /\ bSeqIdx = 0 /\ bSeqResults = <<>>
  /\ bReadCalls = 0 /\ bCheckCalls = 0 /\ bBatchCalls = 0 /\ bLog = <<>>
  /\ bSeqTrace = <<>> /\ bCaught = Absent

\* The list lengths an entry point is tried on: analyzeFilesBatch up to
\* MaxFiles, analyzeFiles up to one past its sequential limit.
FileCounts(entry) ==
  IF entry = "analyzeFiles" THEN 0..(SequentialLimit + 1) ELSE 0..MaxFiles

BInit ==
  /\ bEntry \in {"analyzeFiles", "analyzeFilesBatch"}
  /\ bFiles \in FileCounts(bEntry)
  /\ bReadable \in SUBSET (1..bFiles)
  /\ bMaxConcurrent \in 1..MaxConcurrent
  /\ bFileContents = <<>>
  /\ bPc = "start" /\ bProgress = EmptyProgress /\ bCancelled = FALSE
  /\ bPromise = "none" /\ bTimer = FALSE /\ bTicks = 0 /\ bCancelCalls = 0
  /\ bFatalObserved = FALSE /\ bProgressLogs = 0
  /\ bOutcome = "none" /\ bReturn = <<>> /\ bThrown = Absent
  /\ bSeqIdx = 0 /\ bSeqResults = <<>>
  /\ bReadCalls = 0 /\ bCheckCalls = 0 /\ bBatchCalls = 0 /\ bLog = <<>>
  /\ bSeqTrace = <<>> /\ bCaught = Absent

\* The head of analyzeFilesBatch: an empty file list returns [] at once, any
\* other is announced and its files are read.
EnterBatch_LogFirst ==
  /\ bLog' = Append(bLog, "info:start")
  /\ IF bFiles = 0
     THEN bPc' = "done" /\ bOutcome' = "returned" /\ bReturn' = <<>>
     ELSE bPc' = "reading" /\ UNCHANGED <<bOutcome, bReturn>>

EnterBatch ==
  IF bFiles = 0
  THEN bPc' = "done" /\ bOutcome' = "returned" /\ bReturn' = <<>> /\ UNCHANGED bLog
  ELSE bPc' = "reading" /\ bLog' = Append(bLog, "info:start") /\ UNCHANGED <<bOutcome, bReturn>>

\* analyzeFilesBatch is called.
BatchCall ==
  /\ bPc = "start" /\ bEntry = "analyzeFilesBatch"
  /\ EnterBatch
  /\ UNCHANGED <<bFiles, bReadable, bMaxConcurrent, bFileContents, bProgress, bCancelled,
                 bPromise, bTimer, bTicks, bCancelCalls, bFatalObserved, bProgressLogs,
                 bThrown>>
  /\ UNCHANGED <<bEntry, bSeqIdx, bSeqResults, bReadCalls, bCheckCalls, bBatchCalls,
                 bSeqTrace, bCaught>>
  /\ UNCHANGED bOthers

\* An event of the sequential loop: readFileContent called ("read"), it yielded
\* nothing ("no-content"), styleCheck called ("check"), styleCheck settled
\* ("resolved", "rejected" with the error) with what analyzeFile did then
\* (outcome "result", "null" or "throw").
SeqEvent(ev, file, outcome, error) ==
  [ev |-> ev, file |-> file, outcome |-> outcome, error |-> error]

\* The head of the sequential loop of analyzeFiles at file idx with the results
\* so far: past the last file the results are returned, otherwise the file's
\* content is requested from readFileContent.
SeqLoop(idx, results, trace) ==
  /\ bSeqResults' = results
  /\ IF idx > bFiles
     THEN /\ bPc' = "done" /\ bOutcome' = "returned" /\ bReturn' = results
          /\ bSeqTrace' = trace
          /\ UNCHANGED <<bSeqIdx, bReadCalls>>
     ELSE /\ bPc' = "seq-read" /\ bSeqIdx' = idx /\ bReadCalls' = bReadCalls + 1
          /\ bSeqTrace' = Append(trace, SeqEvent("read", idx, "", Absent))
          /\ UNCHANGED <<bOutcome, bReturn>>

AnalyzeFilesCall_BelowLimitOnly ==
  /\ bPc = "start" /\ bEntry = "analyzeFiles"
  /\ IF bFiles < SequentialLimit
     THEN SeqLoop(1, <<>>, <<>>) /\ UNCHANGED bLog
     ELSE EnterBatch /\ UNCHANGED <<bSeqIdx, bSeqResults, bReadCalls, bSeqTrace>>
  /\ UNCHANGED <<bFiles, bReadable, bMaxConcurrent, bFileContents, bProgress, bCancelled,
                 bPromise, bTimer, bTicks, bCancelCalls, bFatalObserved, bProgressLogs,
                 bThrown>>
  /\ UNCHANGED <<bEntry, bCheckCalls, bBatchCalls, bCaught>>
  /\ UNCHANGED bOthers

\* analyzeFiles is called: a list of at most three files is processed one by
\* one, a longer one is handed to analyzeFilesBatch.
AnalyzeFilesCall ==
  /\ bPc = "start" /\ bEntry = "analyzeFiles"
  /\ IF bFiles <= SequentialLimit
     THEN SeqLoop(1, <<>>, <<>>) /\ UNCHANGED bLog
     ELSE EnterBatch /\ UNCHANGED <<bSeqIdx, bSeqResults, bReadCalls, bSeqTrace>>
  /\ UNCHANGED <<bFiles, bReadable, bMaxConcurrent, bFileContents, bProgress, bCancelled,
                 bPromise, bTimer, bTicks, bCancelCalls, bFatalObserved, bProgressLogs,
                 bThrown>>
  /\ UNCHANGED <<bEntry, bCheckCalls, bBatchCalls, bCaught>>
  /\ UNCHANGED bOthers

SeqReadDone_BreakOnUnreadable ==
  /\ bPc = "seq-read"
  /\ IF bSeqIdx \in bReadable
     THEN /\ bPc' = "seq-check"
          /\ bLog' = Append(bLog, "info:check")
          /\ bCheckCalls' = bCheckCalls + 1
          /\ bSeqTrace' = Append(bSeqTrace, SeqEvent("check", bSeqIdx, "", Absent))
          /\ UNCHANGED <<bSeqIdx, bSeqResults, bReadCalls, bOutcome, bReturn>>
     ELSE /\ SeqLoop(bFiles + 1, bSeqResults,
                     Append(bSeqTrace, SeqEvent("no-content", bSeqIdx, "", Absent)))
          /\ UNCHANGED <<bLog, bCheckCalls>>
  /\ UNCHANGED <<bFiles, bReadable, bMaxConcurrent, bFileContents, bProgress, bCancelled,
                 bPromise, bTimer, bTicks, bCancelCalls, bFatalObserved, bProgressLogs,
                 bThrown>>
  /\ UNCHANGED <<bEntry, bBatchCalls, bCaught>>
  /\ UNCHANGED bOthers

\* readFileContent has resolved for the current file: with content analyzeFile
\* announces the check and calls styleCheck, without the loop moves on.
SeqReadDone ==
  /\ bPc = "seq-read"
  /\ IF bSeqIdx \in bReadable
     THEN /\ bPc' = "seq-check"
          /\ bLog' = Append(bLog, "info:check")
          /\ bCheckCalls' = bCheckCalls + 1
          /\ bSeqTrace' = Append(bSeqTrace, SeqEvent("check", bSeqIdx, "", Absent))
          /\ UNCHANGED <<bSeqIdx, bSeqResults, bReadCalls, bOutcome, bReturn>>
     ELSE /\ SeqLoop(bSeqIdx + 1, bSeqResults,
                     Append(bSeqTrace, SeqEvent("no-content", bSeqIdx, "", Absent)))
          /\ UNCHANGED <<bLog, bCheckCalls>>
  /\ UNCHANGED <<bFiles, bReadable, bMaxConcurrent, bFileContents, bProgress, bCancelled,
                 bPromise, bTimer, bTicks, bCancelCalls, bFatalObserved, bProgressLogs,
                 bThrown>>
  /\ UNCHANGED <<bEntry, bBatchCalls, bCaught>>
  /\ UNCHANGED bOthers

\* styleCheck resolves for the current file: analyzeFile returns the result,
\* which is pushed, and the loop moves on.
SeqCheckResolved ==
  /\ bPc = "seq-check"
  /\ SeqLoop(bSeqIdx + 1, Append(bSeqResults, [filePath |-> bSeqIdx, scores |-> bSeqIdx]),
             Append(bSeqTrace, SeqEvent("resolved", bSeqIdx, "result", Absent)))
  /\ UNCHANGED <<bFiles, bReadable, bMaxConcurrent, bFileContents, bProgress, bCancelled,
                 bPromise, bTimer, bTicks, bCancelCalls, bFatalObserved, bProgressLogs,
                 bThrown>>
  /\ UNCHANGED <<bEntry, bCheckCalls, bBatchCalls, bLog, bCaught>>
  /\ UNCHANGED bOthers

\* styleCheck rejects for the current file: analyzeFile logs the failure and
\* rethrows a batch-ending error, which leaves analyzeFiles; for any other it
\* returns null and the loop moves on.
SeqCheckRejected_SwallowAll(error) ==
  /\ bPc = "seq-check"
  /\ bLog' = Append(bLog, "error:check")
  /\ SeqLoop(bSeqIdx + 1, bSeqResults,
             Append(bSeqTrace, SeqEvent("rejected", bSeqIdx, "null", error)))
  /\ UNCHANGED bThrown
  /\ UNCHANGED <<bFiles, bReadable, bMaxConcurrent, bFileContents, bProgress, bCancelled,
                 bPromise, bTimer, bTicks, bCancelCalls, bFatalObserved, bProgressLogs>>
  /\ UNCHANGED <<bEntry, bCheckCalls, bBatchCalls, bCaught>>
  /\ UNCHANGED bOthers

SeqCheckRejected(error) ==
  /\ bPc = "seq-check"
  /\ bLog' = Append(bLog, "error:check")
  /\ IF isRequestEndingError(error)
     THEN /\ bPc' = "done" /\ bOutcome' = "threw" /\ bThrown' = error
          /\ bSeqTrace' = Append(bSeqTrace, SeqEvent("rejected", bSeqIdx, "throw", error))
          /\ UNCHANGED <<bSeqIdx, bSeqResults, bReadCalls, bReturn>>
     ELSE /\ SeqLoop(bSeqIdx + 1, bSeqResults,
                     Append(bSeqTrace, SeqEvent("rejected", bSeqIdx, "null", error)))
          /\ UNCHANGED bThrown
  /\ UNCHANGED <<bFiles, bReadable, bMaxConcurrent, bFileContents, bProgress, bCancelled,
                 bPromise, bTimer, bTicks, bCancelCalls, bFatalObserved, bProgressLogs>>
  /\ UNCHANGED <<bEntry, bCheckCalls, bBatchCalls, bCaught>>
  /\ UNCHANGED bOthers

\* processFileReading has resolved: no content returns [], otherwise the
\* requests are built (one per entry of fileContents, in its order), the batch
\* is started and the progress timer is set.
ReadingDone ==
  /\ bPc = "reading"
  /\ bFileContents' = processFileReading(bFiles, bReadable)
  /\ bReadCalls' = bReadCalls + bFiles
  /\ IF Len(bFileContents') = 0
     THEN /\ bPc' = "done" /\ bOutcome' = "returned" /\ bReturn' = <<>>
          /\ bLog' = Append(bLog, "warning:no-content")
          /\ UNCHANGED <<bProgress, bPromise, bTimer, bBatchCalls>>
     ELSE /\ bPc' = "awaiting"
          /\ bBatchCalls' = bBatchCalls + 1
          /\ bProgress' = InitialProgress(Len(bFileContents'))
          /\ bPromise' = "pending"
          /\ bTimer' = TRUE
          /\ UNCHANGED <<bOutcome, bReturn, bLog>>
  /\ UNCHANGED <<bFiles, bReadable, bMaxConcurrent, bCancelled, bTicks, bCancelCalls,
                 bFatalObserved, bProgressLogs, bThrown>>
  /\ UNCHANGED <<bEntry, bSeqIdx, bSeqResults, bCheckCalls, bSeqTrace, bCaught>>
  /\ UNCHANGED bOthers

\* The toolkit starts a pending request while the batch is neither cancelled nor
\* at its concurrency limit.
JobStart(i) ==
  /\ bPromise = "pending" /\ ~bCancelled
  /\ bProgress.results[i].status = "pending"
  /\ bProgress.inProgress < bMaxConcurrent
  /\ bProgress' = [bProgress EXCEPT !.results[i].status = "in-progress",
                                    !.pending = @ - 1, !.inProgress = @ + 1]
  /\ UNCHANGED <<bFiles, bReadable, bMaxConcurrent, bFileContents, bPc, bCancelled,
                 bPromise, bTimer, bTicks, bCancelCalls, bFatalObserved, bProgressLogs,
                 bOutcome, bReturn, bThrown>>
  /\ UNCHANGED bCallVars
  /\ UNCHANGED bOthers

\* A request in flight completes with its result.
JobComplete(i) ==
  /\ bPromise = "pending"
  /\ bProgress.results[i].status = "in-progress"
  /\ bProgress' = [bProgress EXCEPT !.results[i].status = "completed",
                                    !.results[i].result = bFileContents[i],
                                    !.inProgress = @ - 1, !.completed = @ + 1]
  /\ UNCHANGED <<bFiles, bReadable, bMaxConcurrent, bFileContents, bPc, bCancelled,
                 bPromise, bTimer, bTicks, bCancelCalls, bFatalObserved, bProgressLogs,
                 bOutcome, bReturn, bThrown>>
  /\ UNCHANGED bCallVars
  /\ UNCHANGED bOthers

\* A request in flight fails (after the toolkit's own retries) with error.
JobFail_StillInProgress(i, error) ==
  /\ bPromise = "pending"
  /\ bProgress.results[i].status = "in-progress"
  /\ bProgress' = [bProgress EXCEPT !.results[i].status = "failed",
                                    !.results[i].error = error,
                                    !.failed = @ + 1]
  /\ UNCHANGED <<bFiles, bReadable, bMaxConcurrent, bFileContents, bPc, bCancelled,
                 bPromise, bTimer, bTicks, bCancelCalls, bFatalObserved, bProgressLogs,
                 bOutcome, bReturn, bThrown>>
  /\ UNCHANGED bCallVars
  /\ UNCHANGED bOthers

JobFail(i, error) ==
  /\ bPromise = "pending"
  /\ bProgress.results[i].status = "in-progress"
  /\ bProgress' = [bProgress EXCEPT !.results[i].status = "failed",
                                    !.results[i].error = error,
                                    !.inProgress = @ - 1, !.failed = @ + 1]
  /\ UNCHANGED <<bFiles, bReadable, bMaxConcurrent, bFileContents, bPc, bCancelled,
                 bPromise, bTimer, bTicks, bCancelCalls, bFatalObserved, bProgressLogs,
                 bOutcome, bReturn, bThrown>>
  /\ UNCHANGED bCallVars
  /\ UNCHANGED bOthers

\* The callback of setInterval: the progress check, batchResponse.cancel() when
\* a batch-ending failure is found, and the progress line.
Tick_NoCancel ==
  /\ bTimer /\ bTicks < MaxTicks
  /\ bTicks' = bTicks + 1
  /\ LET found == checkForRequestEndingError(bProgress.failed, bProgress.results).found
     IN  /\ bFatalObserved' = (bFatalObserved \/ found)
         /\ UNCHANGED <<bCancelled, bCancelCalls>>
  /\ bProgressLogs' =
       IF bProgress.completed > 0 \/ bProgress.failed > 0
       THEN bProgressLogs + 1 ELSE bProgressLogs
  /\ UNCHANGED <<bFiles, bReadable, bMaxConcurrent, bFileContents, bPc, bProgress,
                 bPromise, bTimer, bOutcome, bReturn, bThrown>>
  /\ UNCHANGED bCallVars
  /\ UNCHANGED bOthers

Tick_CancelOnAnyFailure ==
  /\ bTimer /\ bTicks < MaxTicks
  /\ bTicks' = bTicks + 1
  /\ LET found == bProgress.failed > 0
     IN  /\ bFatalObserved' = (bFatalObserved \/ found)
         /\ IF found
            THEN bCancelled' = TRUE /\ bCancelCalls' = bCancelCalls + 1
            ELSE UNCHANGED <<bCancelled, bCancelCalls>>
  /\ bProgressLogs' =
       IF bProgress.completed > 0 \/ bProgress.failed > 0
       THEN bProgressLogs + 1 ELSE bProgressLogs
  /\ UNCHANGED <<bFiles, bReadable, bMaxConcurrent, bFileContents, bPc, bProgress,
                 bPromise, bTimer, bOutcome, bReturn, bThrown>>
  /\ UNCHANGED bCallVars
  /\ UNCHANGED bOthers

Tick ==
  /\ bTimer /\ bTicks < MaxTicks
  /\ bTicks' = bTicks + 1
  /\ LET found == checkForRequestEndingError(bProgress.failed, bProgress.results).found
     IN  /\ bFatalObserved' = (bFatalObserved \/ found)
         /\ IF found
            THEN bCancelled' = TRUE /\ bCancelCalls' = bCancelCalls + 1
            ELSE UNCHANGED <<bCancelled, bCancelCalls>>
  /\ bProgressLogs' =
       IF bProgress.completed > 0 \/ bProgress.failed > 0
       THEN bProgressLogs + 1 ELSE bProgressLogs
  /\ UNCHANGED <<bFiles, bReadable, bMaxConcurrent, bFileContents, bPc, bProgress,
                 bPromise, bTimer, bOutcome, bReturn, bThrown>>
  /\ UNCHANGED bCallVars
  /\ UNCHANGED bOthers

\* The loop over finalProgress.results.entries(): a result is pushed for every
\* entry that is completed and has a result, with the path at the entry's position.
RECURSIVE ProcessResults_Prepend(_, _, _)
ProcessResults_Prepend(results, fileContents, i) ==
  IF i > Len(results) THEN <<>>
  ELSE ProcessResults_Prepend(results, fileContents, i + 1) \o
       (IF results[i].status = "completed" /\ results[i].result # 0
        THEN <<[filePath |-> fileContents[i], scores |-> results[i].result]>>
        ELSE <<>>)

RECURSIVE ProcessResults(_, _, _)
ProcessResults(results, fileContents, i) ==
  IF i > Len(results) THEN <<>>
  ELSE (IF results[i].status = "completed" /\ results[i].result # 0
        THEN <<[filePath |-> fileContents[i], scores |-> results[i].result]>>
        ELSE <<>>)
       \o ProcessResults(results, fileContents, i + 1)

\* The log events of that loop and the closing line: one error per failed entry.
ResultLogs(results) ==
  [k \in 1..Cardinality({i \in DOMAIN results : results[i].status = "failed"}) |-> "error:file"]
  \o <<"info:completed">>

Catch_RethrowAll(error) ==
  /\ bCaught' = error
  /\ bLog' = Append(bLog, "error:batch-failed")
  /\ bOutcome' = "threw" /\ bThrown' = error /\ bReturn' = <<>>

\* The catch block: a batch-ending error is rethrown, any other becomes [].
Catch(error) ==
  /\ bCaught' = error
  /\ bLog' = Append(bLog, "error:batch-failed")
  /\ IF isRequestEndingError(error)
     THEN bOutcome' = "threw" /\ bThrown' = error /\ bReturn' = <<>>
     ELSE bOutcome' = "returned" /\ bThrown' = Absent /\ bReturn' = <<>>

\* styleBatchCheckRequests throws when called: the catch block runs; no promise
\* exists and the timer has not been set.
StartFails(error) ==
  /\ bPc = "reading"
  /\ bFileContents' = processFileReading(bFiles, bReadable)
  /\ Len(bFileContents') > 0
  /\ bReadCalls' = bReadCalls + bFiles
  /\ bBatchCalls' = bBatchCalls + 1
  /\ Catch(error)
  /\ bPc' = "done"
  /\ UNCHANGED <<bFiles, bReadable, bMaxConcurrent, bProgress, bCancelled, bPromise,
                 bTimer, bTicks, bCancelCalls, bFatalObserved, bProgressLogs>>
  /\ UNCHANGED <<bEntry, bSeqIdx, bSeqResults, bCheckCalls, bSeqTrace>>
  /\ UNCHANGED bOthers

\* Every request has settled and the batch promise resolves with the progress:
\* the timer is cleared, the final check throws into the catch block or the
\* results are collected and returned.
BatchResolved ==
  /\ bPc = "awaiting" /\ bPromise = "pending"
  /\ \A i \in DOMAIN bProgress.results :
       bProgress.results[i].status \in {"completed", "failed"}
  /\ bPromise' = "resolved"
  /\ bTimer' = FALSE
  /\ LET check == checkForRequestEndingError(bProgress.failed, bProgress.results)
     IN  IF check.found
         THEN Catch(IF check.error.isError THEN check.error
                    ELSE NewError(check.error.message))
         ELSE /\ bOutcome' = "returned" /\ bThrown' = Absent
              /\ bReturn' = ProcessResults(bProgress.results, bFileContents, 1)
              /\ bLog' = bLog \o ResultLogs(bProgress.results)
              /\ UNCHANGED bCaught
  /\ bPc' = "done"
  /\ UNCHANGED <<bFiles, bReadable, bMaxConcurrent, bFileContents, bProgress, bCancelled,
                 bTicks, bCancelCalls, bFatalObserved, bProgressLogs>>
  /\ UNCHANGED <<bEntry, bSeqIdx, bSeqResults, bReadCalls, bCheckCalls, bBatchCalls,
                 bSeqTrace>>
  /\ UNCHANGED bOthers

\* The batch promise rejects, with the cancellation after cancel(), with a
\* timeout or with an error of the remote service: the catch block runs; the
\* timer is not cleared on this path.
BatchRejected(error) ==
  /\ bPc = "awaiting" /\ bPromise = "pending"
  /\ error = CancelledError => bCancelled
  /\ bPromise' = "rejected"
  /\ Catch(error)
  /\ bPc' = "done"
  /\ UNCHANGED <<bFiles, bReadable, bMaxConcurrent, bFileContents, bProgress, bCancelled,
                 bTimer, bTicks, bCancelCalls, bFatalObserved, bProgressLogs>>
  /\ UNCHANGED <<bEntry, bSeqIdx, bSeqResults, bReadCalls, bCheckCalls, bBatchCalls,
                 bSeqTrace>>
  /\ UNCHANGED bOthers

BatchNext ==
  \/ BatchCall
  \/ AnalyzeFilesCall
  \/ SeqReadDone
  \/ SeqCheckResolved
  \/ \E error \in JobErrors(bSeqIdx) : SeqCheckRejected(error)
  \/ ReadingDone
  \/ \E error \in {StartError, UnauthorizedError} : StartFails(error)
  \/ \E i \in DOMAIN bProgress.results : JobStart(i)
  \/ \E i \in DOMAIN bProgress.results : JobComplete(i)
  \/ \E i \in DOMAIN bProgress.results : \E error \in JobErrors(i) : JobFail(i, error)
  \/ Tick
  \/ BatchResolved
  \/ \E error \in {CancelledError, TimeoutError, UnauthorizedError} : BatchRejected(error)

\* ------------------------------------------------------------ action runner
\* The strings the strict_mode input (core.getInput: "" when not given) and the
\* STRICT_MODE environment variable ("undefined" when not set) may hold;
\* aOutput is <<>> until 'files-analyzed' is set, and <<value>> afterwards.
InputStrings == {"", "true", "TRUE", "True", "false", "yes"}
EnvStrings == {"undefined", "", "true", "false"}

\* value.toLowerCase() on those strings.
ToLowerCase(value) == IF value \in {"TRUE", "True"} THEN "true" ELSE value

\* getBooleanInput(inputName, defaultValue), given what core.getInput(inputName)
\* and process.env[inputName.toUpperCase()] hold.
getBooleanInput_DefaultIgnored(input, env, defaultValue) ==
  LET value == IF input # "" THEN input ELSE env
  IN  IF value = "undefined" \/ value = "" THEN TRUE
      ELSE ToLowerCase(value) = "true"

getBooleanInput(input, env, defaultValue) ==
  LET value == IF input # "" THEN input ELSE env
  IN  IF value = "undefined" \/ value = "" THEN defaultValue
      ELSE ToLowerCase(value) = "true"

NoFailure == "none"

AIdle ==
  /\ aInput = "" /\ aEnv = "undefined" /\ aFiles = 0 /\ aPc = "idle"
  /\ aStrict = FALSE /\ aResults = 0 /\ aFailed = NoFailure /\ aOutput = <<>>

AInit ==
  /\ aInput \in InputStrings /\ aEnv \in EnvStrings /\ aFiles \in 0..MaxDiscovered
  /\ aPc = "start"
  /\ aStrict = FALSE /\ aResults = 0 /\ aFailed = NoFailure /\ aOutput = <<>>

\* runAction up to the call of analyzeFiles: the configuration is read
\* (strictMode = getBooleanInput("strict_mode", false)) and the files are
\* discovered; without files the output is 0 and the run ends.
RunStart ==
  /\ aPc = "start"
  /\ aStrict' = getBooleanInput(aInput, aEnv, FALSE)
  /\ IF aFiles = 0
     THEN aPc' = "done" /\ aOutput' = <<0>>
     ELSE aPc' = "analyzing" /\ UNCHANGED aOutput
  /\ UNCHANGED <<aInput, aEnv, aFiles, aResults, aFailed>> /\ UNCHANGED aOthers

\* analyzeFiles resolves with r results: none fails the run; otherwise the
\* count is published and strict mode fails the run when files are missing.
\* Whether the output is also set when there is no result is left open.
AnalysisReturns(r, outputOnEmpty) ==
  /\ aPc = "analyzing"
  /\ aResults' = r
  /\ IF r = 0
     THEN /\ aFailed' = "Failed to analyze supported files."
          /\ aOutput' = IF outputOnEmpty THEN <<0>> ELSE aOutput
     ELSE /\ aOutput' = <<r>>
          /\ aFailed' = IF aStrict /\ r < aFiles
                        THEN "Some files were not analyzed." ELSE NoFailure
  /\ aPc' = "done"
  /\ UNCHANGED <<aInput, aEnv, aFiles, aStrict>> /\ UNCHANGED aOthers

\* analyzeFiles rejects (a batch-ending error): the run fails with its message.
AnalysisThrows ==
  /\ aPc = "analyzing"
  /\ aFailed' = "error message"
  /\ aPc' = "threw"
  /\ UNCHANGED <<aInput, aEnv, aFiles, aStrict, aResults, aOutput>> /\ UNCHANGED aOthers

RunnerNext ==
  \/ RunStart
  \/ \E r \in 0..aFiles : \E outputOnEmpty \in BOOLEAN : AnalysisReturns(r, outputOnEmpty)
  \/ AnalysisThrows

\* ------------------------------------------------- result loop, any order
\* The result loop of analyzeFilesBatch applied to a final progress whose
\* outcome list the toolkit hands back in any order: the outcome at position k
\* is the one of request perm[k] and carries that request's index and, when
\* completed, the scores of the file the request was built from.
IndexOrders(n) ==
  {perm \in [1..n -> 1..n] : \A i, j \in 1..n : i # j => perm[i] # perm[j]}

FinalResults(fileContents, perm, status) ==
  [k \in 1..Len(fileContents) |->
     Outcome(perm[k], status[perm[k]],
             IF status[perm[k]] = "failed"
             THEN Value(TRUE, "VALIDATION_ERROR", "number", 400, "validation", perm[k])
             ELSE Absent,
             IF status[perm[k]] = "completed" THEN fileContents[perm[k]] ELSE 0)]

FIdle ==
  /\ fFiles = 0 /\ fReadable = {} /\ fFileContents = <<>> /\ fFinal = <<>>
  /\ fReturn = <<>> /\ fPc = "idle"

\* The batch promise has resolved with no batch-ending failure.
FInit ==
  /\ fFiles \in 1..MaxFiles
  /\ fReadable \in (SUBSET (1..fFiles)) \ {{}}
  /\ fFileContents = processFileReading(fFiles, fReadable)
  /\ \E perm \in IndexOrders(Len(fFileContents)) :
       \E status \in [1..Len(fFileContents) -> {"completed", "failed"}] :
         fFinal = FinalResults(fFileContents, perm, status)
  /\ fReturn = <<>> /\ fPc = "resolved"

\* The loop over finalProgress.results.entries() and the return of its list.
CollectResults ==
  /\ fPc = "resolved"
  /\ fReturn' = ProcessResults(fFinal, fFileContents, 1)
  /\ fPc' = "done"
  /\ UNCHANGED <<fFiles, fReadable, fFileContents, fFinal>>
  /\ UNCHANGED fOthers

\* ---------------------------------------------------- post-analysis service
\* The event types of EVENT_TYPES and one that is none of them; the PR number
\* is 0 when getPRNumber() yields none; pSettled tells how the publishing call
\* settled.
EventTypes == {"push", "workflow_dispatch", "schedule", "pull_request", "other"}
PrNumbers == {0, 7}

PIdle ==
  /\ pEvent = "none" /\ pResults = 0 /\ pAddCommitStatus = FALSE
  /\ pIsPullRequest = FALSE /\ pPrNumber = 0
  /\ pPc = "idle" /\ pCalls = <<>> /\ pLog = <<>> /\ pOutcome = "none"
  /\ pSettled = "none"

PInit ==
  /\ pEvent \in EventTypes
  /\ pResults \in 0..MaxPostResults
  /\ pAddCommitStatus \in BOOLEAN
  /\ pIsPullRequest \in BOOLEAN
  /\ pPrNumber \in PrNumbers
  /\ pPc = "start" /\ pCalls = <<>> /\ pLog = <<>> /\ pOutcome = "none"
  /\ pSettled = "none"

\* The handler returns without a publishing call, having logged the given lines.
PostReturns(lines) ==
  /\ pPc' = "done" /\ pOutcome' = "returned"
  /\ pLog' = pLog \o lines
  /\ UNCHANGED pCalls

\* The handler makes its publishing call and awaits it.
Publish(call) ==
  /\ pPc' = "publishing"
  /\ pCalls' = Append(pCalls, call)
  /\ pLog' = Append(pLog, "header")
  /\ UNCHANGED pOutcome

handlePushEvent ==
  IF ~pAddCommitStatus
  THEN PostReturns(<<"info:commit-status-disabled">>)
  ELSE Publish("updateCommitStatus")

handleWorkflowOrScheduleEvent == Publish("createJobSummary")

handlePullRequestEvent ==
  IF ~pIsPullRequest THEN PostReturns(<<>>)
  ELSE IF pPrNumber = 0 THEN PostReturns(<<>>)
  ELSE Publish("createOrUpdatePRComment")

\* handlePostAnalysisActions up to its first await or its return.
handlePostAnalysisActions ==
  /\ pPc = "start"
  /\ IF pResults = 0
     THEN PostReturns(<<"info:no-results">>)
     ELSE CASE pEvent = "push" -> handlePushEvent
            [] pEvent \in {"workflow_dispatch", "schedule"} -> handleWorkflowOrScheduleEvent
            [] pEvent = "pull_request" -> handlePullRequestEvent
            [] OTHER -> PostReturns(<<"info:no-specific-action">>)
  /\ UNCHANGED <<pEvent, pResults, pAddCommitStatus, pIsPullRequest, pPrNumber, pSettled>>
  /\ UNCHANGED pOthers

\* The publishing call resolves: the handler and handlePostAnalysisActions return.
PublishResolves ==
  /\ pPc = "publishing"
  /\ pSettled' = "resolved"
  /\ pPc' = "done" /\ pOutcome' = "returned"
  /\ UNCHANGED <<pEvent, pResults, pAddCommitStatus, pIsPullRequest, pPrNumber, pCalls,
                 pLog>>
  /\ UNCHANGED pOthers

PublishRejects_Propagates ==
  /\ pPc = "publishing"
  /\ pSettled' = "rejected"
  /\ pPc' = "done" /\ pOutcome' = "threw"
  /\ UNCHANGED <<pEvent, pResults, pAddCommitStatus, pIsPullRequest, pPrNumber, pCalls,
                 pLog>>
  /\ UNCHANGED pOthers

\* The publishing call rejects: the handler's catch logs the failure and the
\* handler returns.
PublishRejects ==
  /\ pPc = "publishing"
  /\ pSettled' = "rejected"
  /\ pLog' = Append(pLog, "error:failed")
  /\ pPc' = "done" /\ pOutcome' = "returned"
  /\ UNCHANGED <<pEvent, pResults, pAddCommitStatus, pIsPullRequest, pPrNumber, pCalls>>
  /\ UNCHANGED pOthers

PostNext ==
  \/ handlePostAnalysisActions
  \/ PublishResolves
  \/ PublishRejects

\* ----------------------------------------------------------- specifications
ClassifierNext == ClassifyError \/ CheckEnding

InitClassifier == CInit /\ RIdle /\ KIdle /\ LIdle /\ BIdle /\ AIdle /\ FIdle /\ PIdle
InitRetry == RInit /\ CIdle /\ KIdle /\ LIdle /\ BIdle /\ AIdle /\ FIdle /\ PIdle
InitBackoff == KInit /\ CIdle /\ RIdle /\ LIdle /\ BIdle /\ AIdle /\ FIdle /\ PIdle
InitLimiter == LInit /\ CIdle /\ RIdle /\ KIdle /\ BIdle /\ AIdle /\ FIdle /\ PIdle
InitBatch == BInit /\ CIdle /\ RIdle /\ KIdle /\ LIdle /\ AIdle /\ FIdle /\ PIdle
InitRunner == AInit /\ CIdle /\ RIdle /\ KIdle /\ LIdle /\ BIdle /\ FIdle /\ PIdle

SpecClassifier == InitClassifier /\ [][ClassifierNext]_vars

SpecRetry == InitRetry /\ [][RetryNext]_vars

\* withRetry when every awaited promise settles: operation() resolves or
\* rejects, and the timer of delay() fires.
RetryFairness == WF_vars(RetryNext)

SpecRetryFair == SpecRetry /\ RetryFairness

SpecBackoff == InitBackoff /\ [][NextDelay]_vars

SpecLimiter == InitLimiter /\ [][LimiterNext]_vars

SpecBatch == InitBatch /\ [][BatchNext]_vars

SpecRunner == InitRunner /\ [][RunnerNext]_vars

InitResultLoop == FInit /\ CIdle /\ RIdle /\ KIdle /\ LIdle /\ BIdle /\ AIdle /\ PIdle

SpecResultLoop == InitResultLoop /\ [][CollectResults]_vars

InitPost == PInit /\ CIdle /\ RIdle /\ KIdle /\ LIdle /\ BIdle /\ AIdle /\ FIdle

SpecPost == InitPost /\ [][PostNext]_vars

\* ------------------------------------------------------------------ claims
\* The positions of the failed outcomes of a list that carry a batch-ending error.
FatalFailed(results) ==
  {i \in DOMAIN results :
     results[i].status = "failed" /\ isRequestEndingError(results[i].error)}

FailedCount(results) == Cardinality({i \in DOMAIN results : results[i].status = "failed"})

\* C5: isRequestEndingError is true exactly for an error whose type tag is
\* UNAUTHORIZED or INTERNAL_SERVER_ERROR or whose statusCode is a number that is
\* 401 or at least 500, and false for every other value, an absent error included.
C5_ClassifierRule ==
  (cMode = "classify" /\ cPc = "done") =>
    /\ cIsEnding \in BOOLEAN
    /\ cIsEnding <=>
         /\ cErr.js = "value"
         /\ \/ cErr.type = "UNAUTHORIZED_ERROR"
            \/ cErr.type = "INTERNAL_SERVER_ERROR"
            \/ cErr.codeKind = "number" /\ cErr.code = 401
            \/ cErr.codeKind = "number" /\ cErr.code >= 500

\* A 503 without a type tag has been classified batch-ending.
C5_Witness ==
  /\ cMode = "classify" /\ cPc = "done"
  /\ cErr.js = "value" /\ cErr.type = "none" /\ cErr.codeKind = "number" /\ cErr.code = 503
  /\ cIsEnding = TRUE

\* C6: with a consistent failed count, when failed outcomes are batch-ending the
\* check returns the error object of the one whose index field is lowest.
C6_LowestIndexWins ==
  (cMode = "check" /\ cPc = "done" /\ cFailed = FailedCount(cResults)
     /\ FatalFailed(cResults) # {}) =>
    /\ cCheck.found
    /\ \E i \in FatalFailed(cResults) :
         /\ \A j \in FatalFailed(cResults) : cResults[i].index <= cResults[j].index
         /\ cCheck.error = cResults[i].error

\* An ordinary failure at index 1, batch-ending ones at 2 and 3: index 2 is returned.
C6_Witness ==
  /\ cMode = "check" /\ cPc = "done" /\ cFailed = 3
  /\ Len(cResults) = 3
  /\ FatalFailed(cResults) = {2, 3}
  /\ cResults[1].status = "failed"
  /\ cCheck.found /\ cCheck.error.id = 2

\* C7: with failed = 0 the check answers {found: false, error: null} whatever
\* the outcome list holds.
C7_ZeroFailedShortCircuit ==
  (cMode = "check" /\ cPc = "done" /\ cFailed = 0) =>
    cCheck = [found |-> FALSE, error |-> Null]

\* failed = 0 was passed with a list that holds a batch-ending failed outcome.
C7_Witness ==
  /\ cMode = "check" /\ cPc = "done" /\ cFailed = 0
  /\ FatalFailed(cResults) # {}
  /\ ~cCheck.found

EventsOf(ev) == {i \in DOMAIN rTrace : rTrace[i].ev = ev}

\* C8: when every attempt fails, the operation has been called exactly maxRetries
\* times and withRetry throws the last failure: the same object when it is an
\* Error, an Error with its string form as message otherwise.
C8_ExhaustedThrowsLast ==
  (rPc = "thrown" /\ rCfg.maxRetries >= 1) =>
    /\ rCalls = rCfg.maxRetries
    /\ Len(rFailures) = rCfg.maxRetries
    /\ rThrown.js = "value" /\ rThrown.isError
    /\ rThrown.message = rFailures[Len(rFailures)].message
    /\ rFailures[Len(rFailures)].isError => rThrown = rFailures[Len(rFailures)]

\* Three attempts failed with messages a, a, b and the throw carries b.
C8_Witness ==
  /\ rPc = "thrown" /\ rCfg.maxRetries = 3 /\ rCalls = 3
  /\ rFailures[1].message = "a" /\ rFailures[3].message = "b"
  /\ rThrown.message = "b" /\ rThrown.id = 3

\* C9: once an attempt m has succeeded, the operation has been called m times,
\* withRetry has returned that attempt's value, m - 1 delays have occurred and
\* the successful call is the last event: no delay and no attempt follows it.
C9_SuccessStopsImmediately ==
  (rReturn # 0) =>
    /\ rPc = "returned"
    /\ rReturn = rAttempt /\ rReturn <= rCfg.maxRetries
    /\ rCalls = rReturn
    /\ Len(rFailures) = rReturn - 1
    /\ Cardinality(EventsOf("delay")) = rReturn - 1
    /\ rTrace[Len(rTrace)] = Event("call", rReturn, 0, "")

\* The third attempt succeeded after two failures.
C9_Witness ==
  /\ rPc = "returned" /\ rReturn = 3 /\ rCalls = 3
  /\ Cardinality(EventsOf("delay")) = 2

\* C10: every failed attempt k < maxRetries is followed by exactly one warning
\* carrying k, calculateBackoffDelay(k, config) and the failure's message, then
\* by the delay of that length, and attempt k + 1 starts only after that delay;
\* the failure of attempt maxRetries is followed by exactly one error event and
\* by neither a warning nor a delay.
C10_EventOrder ==
  /\ \A i \in DOMAIN rTrace :
       /\ rTrace[i].ev = "warning" =>
            /\ i > 1 /\ rTrace[i - 1] = Event("call", rTrace[i].attempt, 0, "")
            /\ rTrace[i].attempt < rCfg.maxRetries
            /\ rTrace[i].delay = calculateBackoffDelay(rTrace[i].attempt, rCfg)
            /\ rTrace[i].message = rFailures[rTrace[i].attempt].message
            /\ i < Len(rTrace) /\ rTrace[i + 1].ev = "delay"
       /\ rTrace[i].ev = "delay" =>
            /\ i > 1 /\ rTrace[i - 1].ev = "warning"
            /\ rTrace[i].delay = rTrace[i - 1].delay
            /\ i = Len(rTrace) => (rPc = "delay" /\ rDelay = rTrace[i].delay)
       /\ (rTrace[i].ev = "call" /\ rTrace[i].attempt > 1) =>
            /\ rTrace[i - 1].ev = "delay"
            /\ rTrace[i - 1].attempt = rTrace[i].attempt - 1
       /\ rTrace[i].ev = "error" =>
            /\ i = Len(rTrace)
            /\ rTrace[i - 1] = Event("call", rCfg.maxRetries, 0, "")
            /\ rTrace[i].message = rFailures[rCfg.maxRetries].message
  /\ \A k \in DOMAIN rFailures :
       IF k < rCfg.maxRetries
       THEN Cardinality({i \in EventsOf("warning") : rTrace[i].attempt = k}) = 1
       ELSE /\ Cardinality(EventsOf("error")) = 1
            /\ Cardinality(EventsOf("warning")) = rCfg.maxRetries - 1
            /\ Cardinality(EventsOf("delay")) = rCfg.maxRetries - 1
            /\ rPc = "thrown"

\* Attempts 1 and 2 of 3 failed and were each followed by a warning and a
\* delay of different lengths; attempt 3 failed and the error event was logged.
C10_Witness ==
  /\ rPc = "thrown" /\ rCfg.maxRetries = 3
  /\ Len(rTrace) = 8
  /\ rTrace[2].ev = "warning" /\ rTrace[3].ev = "delay" /\ rTrace[4].ev = "call"
  /\ rTrace[5].ev = "warning" /\ rTrace[5].delay > rTrace[2].delay
  /\ rTrace[8].ev = "error"

\* C11: withRetry never holds, logs or throws a raw non-Error value: a failure
\* that is an Error is kept as the same object, any other failure becomes a new
\* Error whose message is the value's string form, and every warning and error
\* event carries the message of that Error.
C11_NonErrorNormalized ==
  /\ rLastError.js = "value" => rLastError.isError
  /\ rPc = "thrown" => (rThrown.js = "value" /\ rThrown.isError)
  /\ \A k \in DOMAIN rFailures :
       (k = Len(rFailures) /\ rPc \in {"delay", "thrown"}) =>
         /\ rFailures[k].isError => rLastError = rFailures[k]
         /\ ~rFailures[k].isError =>
              /\ rLastError = NewError(rFailures[k].message)
              /\ rLastError # rFailures[k]
         /\ rPc = "thrown" => rThrown = rLastError
  /\ \A i \in DOMAIN rTrace :
       rTrace[i].ev \in {"warning", "error"} =>
         rTrace[i].message = rFailures[rTrace[i].attempt].message

\* The first attempt failed with the string "s" and was logged as a warning
\* with that text; the last attempt failed with the string too and withRetry
\* threw a new Error with message "s".
C11_Witness ==
  /\ rPc = "thrown" /\ rCfg.maxRetries = 2 /\ Len(rFailures) = 2
  /\ ~rFailures[1].isError /\ ~rFailures[2].isError
  /\ rThrown.isError /\ rThrown.message = "s" /\ rThrown.id = 0
  /\ \E i \in DOMAIN rTrace : rTrace[i].ev = "warning" /\ rTrace[i].message = "s"

\* A valid RetryPolicy: baseDelay > 0, maxDelay >= baseDelay, backoffMultiplier > 1.
ValidPolicy(config) ==
  config.baseDelay > 0 /\ config.maxDelay >= config.baseDelay /\ config.backoffMultiplier > 1

\* baseDelay * backoffMultiplier^(k-1), by repeated multiplication from attempt 1.
Uncapped(config) ==
  LET u[k \in 1..(MaxAttempt + 1)] ==
        IF k = 1 THEN config.baseDelay ELSE u[k - 1] * config.backoffMultiplier
  IN  u

\* C12: under a valid policy the delay of every attempt k >= 1 is
\* baseDelay * backoffMultiplier^(k-1) when that is at most maxDelay and
\* maxDelay otherwise; attempt 1 yields baseDelay and no delay exceeds maxDelay.
C12_DelayFormula ==
  ValidPolicy(kCfg) =>
    \A k \in DOMAIN kDelays :
      /\ kDelays[k] = (IF Uncapped(kCfg)[k] <= kCfg.maxDelay
                       THEN Uncapped(kCfg)[k] ELSE kCfg.maxDelay)
      /\ kDelays[k] <= kCfg.maxDelay
      /\ k = 1 => kDelays[k] = kCfg.baseDelay

\* baseDelay 1, multiplier 2, maxDelay 5: the delays are 1, 2, 4, 5.
C12_Witness ==
  /\ kCfg.baseDelay = 1 /\ kCfg.backoffMultiplier = 2 /\ kCfg.maxDelay = 5
  /\ Len(kDelays) >= 4
  /\ kDelays[1] = 1 /\ kDelays[2] = 2 /\ kDelays[3] = 4 /\ kDelays[4] = 5

\* C13: under a valid policy the delays of attempts 1, 2, ... never decrease,
\* and once an attempt's delay is maxDelay every later one is maxDelay.
C13_DelaysNonDecreasing ==
  ValidPolicy(kCfg) =>
    \A k \in DOMAIN kDelays : \A j \in DOMAIN kDelays :
      k < j =>
        /\ kDelays[k] <= kDelays[j]
        /\ kDelays[k] = kCfg.maxDelay => kDelays[j] = kCfg.maxDelay

\* baseDelay 2, multiplier 2, maxDelay 4: the delay grows from 2 to the cap 4
\* at attempt 2 and stays there up to the last attempt.
C13_Witness ==
  /\ kCfg.baseDelay = 2 /\ kCfg.backoffMultiplier = 2 /\ kCfg.maxDelay = 4
  /\ Len(kDelays) = MaxAttempt
  /\ kDelays[1] = 2 /\ kDelays[2] = 4 /\ kDelays[MaxAttempt] = 4

\* C14: a call of analyzeFilesBatch or analyzeFiles with an empty file list
\* returns the empty list in its first step, and has then called neither the
\* file reader nor styleCheck nor styleBatchCheckRequests, set no progress
\* timer, run no progress check and logged nothing.
C14_EmptyListDoesNothing ==
  (bPc # "idle" /\ bFiles = 0) =>
    /\ bPc \in {"start", "done"}
    /\ bPc = "done" => (bOutcome = "returned" /\ bReturn = <<>>)
    /\ bReadCalls = 0 /\ bCheckCalls = 0 /\ bBatchCalls = 0
    /\ ~bTimer /\ bTicks = 0 /\ bPromise = "none"
    /\ bLog = <<>> /\ bProgressLogs = 0

\* analyzeFilesBatch([]) has returned.
C14_Witness ==
  /\ bEntry = "analyzeFilesBatch" /\ bFiles = 0 /\ bPc = "done"
  /\ bOutcome = "returned" /\ bReturn = <<>> /\ bLog = <<>>

\* What runAction guarantees about a run whose analysis has returned r results
\* for n > 0 files: with r > 0 the run fails with 'Some files were not
\* analyzed.' exactly when strict mode is on and r < n, and 'files-analyzed'
\* is r; with r = 0 the run fails with 'Failed to analyze supported files.'.
StrictModeOutcome ==
  (aPc = "done" /\ aFiles > 0) =>
    /\ aResults > 0 =>
         /\ (aFailed = "Some files were not analyzed.") <=> (aStrict /\ aResults < aFiles)
         /\ aFailed \in {NoFailure, "Some files were not analyzed."}
         /\ aOutput = <<aResults>>
    /\ aResults = 0 => aFailed = "Failed to analyze supported files."

C3_AtMostLimitInside ==
  /\ Cardinality({i \in 1..lItems : lState[i] = "running"}) <= lLimit
  /\ Cardinality({i \in 1..lItems : lState[i] \in {"holding", "running"}}) <= lLimit
  /\ lPermits >= 0

\* With limit 2, two processors are running, a third task waits and a fourth
\* has already settled.
C3_Witness ==
  /\ lLimit = 2 /\ lItems = 4
  /\ Cardinality({i \in 1..lItems : lState[i] = "running"}) = 2
  /\ \E i \in 1..lItems : lState[i] = "waiting"
  /\ \E i \in 1..lItems : lState[i] = "done"

\* The tasks that hold a permit: acquired and not yet released.
PermitHolders == {i \in 1..lItems : lState[i] \in {"holding", "running"}}

\* C15: every permit is either in the store or held by exactly one task whose
\* processor has not settled, whether processors resolve or reject: a task
\* waits only while all permits are held, and when every task has settled the
\* store holds the limit again and nobody waits.
C15_PermitsNeverLeak ==
  /\ lPermits + Cardinality(PermitHolders) = lLimit
  /\ lPermits >= 0 /\ lPermits <= lLimit
  /\ lWaitQueue # <<>> => lPermits = 0
  /\ \A k \in DOMAIN lWaitQueue : lState[lWaitQueue[k]] = "waiting"
  /\ \A i \in 1..lItems :
       lState[i] = "waiting" => \E k \in DOMAIN lWaitQueue : lWaitQueue[k] = i
  /\ (\A i \in 1..lItems : lState[i] = "done") =>
       (lPermits = lLimit /\ lWaitQueue = <<>>)

\* With limit 1 the first of three processors rejected, the two tasks queued
\* behind it have run all the same, and the permit is back in the store.
C15_Witness ==
  /\ lPc = "returned" /\ lLimit = 1 /\ lItems = 3
  /\ lResults[1] = "rejected" /\ lResults[2] = "value" /\ lResults[3] = "value"
  /\ lPermits = 1

\* C19: the processor is invoked at most once per item at any time and exactly
\* once per item when processWithConcurrency returns; the returned list holds
\* exactly the items whose processor resolved to a defined value, in input
\* order whatever the order of completion; an empty item list returns [] and
\* invokes nothing.
C19_OncePerItemInputOrder ==
  /\ \A i \in 1..lItems : lCalls[i] <= 1
  /\ lPc = "returned" =>
       /\ \A i \in 1..lItems : lCalls[i] = 1
       /\ \A k \in 1..(Len(lReturn) - 1) : lReturn[k] < lReturn[k + 1]
       /\ {lReturn[k] : k \in DOMAIN lReturn} = {i \in 1..lItems : lResults[i] = "value"}
       /\ lItems = 0 => (lReturn = <<>> /\ lOrder = <<>>)

\* Of four items the third settled before the first, the second rejected and
\* the fourth resolved to undefined: the list returned is <<1, 3>>.
C19_Witness ==
  /\ lPc = "returned" /\ lItems = 4 /\ lLimit >= 2
  /\ lOrder[1] = 3
  /\ lResults[2] = "rejected" /\ lResults[4] = "undefined"
  /\ lReturn = <<1, 3>>

\* Request i goes from pending to in flight in this step.
Started(i) ==
  /\ bProgress.results[i].status = "pending"
  /\ bProgress'.results[i].status = "in-progress"

CompletedPaths ==
  {bFileContents[i] : i \in {j \in DOMAIN bProgress.results :
                               bProgress.results[j].status = "completed"}}

\* C1: when the final progress holds a failed outcome with a batch-ending
\* error, analyzeFilesBatch raises the very error object the final check
\* returned and returns no list.
C1_FatalRaisesSameObject ==
  (bPromise = "resolved" /\ FatalFailed(bProgress.results) # {}) =>
    /\ bOutcome = "threw"
    /\ bThrown = checkForRequestEndingError(bProgress.failed, bProgress.results).error

\* C2: when the batch has resolved without a batch-ending failure, the call
\* returns one entry per completed job, in input order, and none for a failed job.
C2_SuccessesInInputOrder ==
  (bPromise = "resolved" /\ FatalFailed(bProgress.results) = {}) =>
    /\ bOutcome = "returned"
    /\ \A k \in 1..(Len(bReturn) - 1) : bReturn[k].filePath < bReturn[k + 1].filePath
    /\ {bReturn[k].filePath : k \in DOMAIN bReturn} = CompletedPaths
    /\ \A i \in DOMAIN bProgress.results :
         bProgress.results[i].status = "failed" =>
           \A k \in DOMAIN bReturn : bReturn[k].filePath # bFileContents[i]

\* Of three jobs the second failed on a validation error: two results come back.
C2_Witness ==
  /\ bPromise = "resolved" /\ bOutcome = "returned"
  /\ Len(bFileContents) = 3
  /\ bProgress.results[2].status = "failed"
  /\ ~isRequestEndingError(bProgress.results[2].error)
  /\ Len(bReturn) = 2 /\ bReturn[1].filePath = 1 /\ bReturn[2].filePath = 3

\* C16: within one call of analyzeFilesBatch, batchResponse.cancel() is called
\* at most once, however many progress checks find a batch-ending failure.
C16_CancelAtMostOnce == bCancelCalls <= 1

\* C17: no progress line is logged by the progress check that finds a
\* batch-ending failure and signals cancellation, nor by any check after it.
C17_NoProgressAfterSignal ==
  [][bFatalObserved' => bProgressLogs' = bProgressLogs]_vars

CountStatus(results, status) ==
  Cardinality({i \in DOMAIN results : results[i].status = status})

\* C18: in every state of a started batch, hence at every progress check and
\* in the final progress, completed + failed + inProgress + pending = total,
\* each counter is the number of outcomes with that status, there is one
\* outcome per submitted request and its index is its position in the list.
C18_ProgressConservation ==
  bPromise # "none" =>
    /\ bProgress.completed + bProgress.failed + bProgress.inProgress + bProgress.pending
         = bProgress.total
    /\ bProgress.total = Len(bFileContents)
    /\ Len(bProgress.results) = bProgress.total
    /\ bProgress.completed = CountStatus(bProgress.results, "completed")
    /\ bProgress.failed = CountStatus(bProgress.results, "failed")
    /\ bProgress.inProgress = CountStatus(bProgress.results, "in-progress")
    /\ bProgress.pending = CountStatus(bProgress.results, "pending")
    /\ \A i \in DOMAIN bProgress.results : bProgress.results[i].index = i

\* A progress check has run on a batch of three with one request completed,
\* one failed and one in flight.
C18_Witness ==
  /\ bPromise = "pending" /\ bTicks >= 1 /\ bProgress.total = 3
  /\ bProgress.completed = 1 /\ bProgress.failed = 1 /\ bProgress.inProgress = 1
  /\ bProgress.results[2].status = "failed"

Rejections == {k \in DOMAIN bSeqTrace : bSeqTrace[k].ev = "rejected"}

\* C21: a rejected style check is decided by the classifier alone: analyzeFile
\* returns null for an ordinary error and rethrows a batch-ending error as the
\* same object, and it never yields a result for the file of a rejected check.
C21_RejectionDecidedByClassifier ==
  \A k \in Rejections :
    /\ bSeqTrace[k].outcome =
         (IF isRequestEndingError(bSeqTrace[k].error) THEN "throw" ELSE "null")
    /\ bSeqTrace[k].outcome = "throw" =>
         /\ k = Len(bSeqTrace)
         /\ bOutcome = "threw" /\ bThrown = bSeqTrace[k].error
    /\ \A r \in DOMAIN bSeqResults : bSeqResults[r].filePath # bSeqTrace[k].file

\* One style check was rejected with an ordinary error and answered with null,
\* a later one with a batch-ending error, which was rethrown.
C21_Witness ==
  /\ bOutcome = "threw"
  /\ \E k \in Rejections : bSeqTrace[k].outcome = "null"
  /\ \E k \in Rejections : bSeqTrace[k].outcome = "throw"

\* The events of the sequential loop after which a file is left out without
\* ending the run: no readable content, or a check rejected with an ordinary
\* error.
Omissions ==
  {k \in DOMAIN bSeqTrace :
     \/ bSeqTrace[k].ev = "no-content"
     \/ bSeqTrace[k].ev = "rejected" /\ ~isRequestEndingError(bSeqTrace[k].error)}

FatalRejections ==
  {k \in DOMAIN bSeqTrace :
     bSeqTrace[k].ev = "rejected" /\ isRequestEndingError(bSeqTrace[k].error)}

\* C22: in the sequential path a batch-ending failure of file i makes
\* analyzeFiles raise that error with no list returned and nothing read or
\* checked after file i; a file with an ordinary failure or without readable
\* content is left out and the loop goes on with file i+1 (or returns after
\* the last file).
C22_SequentialFatalStopsOrdinaryContinues ==
  /\ \A k \in FatalRejections :
       /\ bPc = "done" /\ bOutcome = "threw" /\ bThrown = bSeqTrace[k].error
       /\ bReturn = <<>>
       /\ k = Len(bSeqTrace)
       /\ bReadCalls = bSeqTrace[k].file
       /\ \A j \in DOMAIN bSeqTrace : bSeqTrace[j].file <= bSeqTrace[k].file
  /\ \A k \in Omissions :
       /\ \A r \in DOMAIN bSeqResults : bSeqResults[r].filePath # bSeqTrace[k].file
       /\ IF bSeqTrace[k].file < bFiles
          THEN /\ k < Len(bSeqTrace)
               /\ bSeqTrace[k + 1] = SeqEvent("read", bSeqTrace[k].file + 1, "", Absent)
          ELSE /\ k = Len(bSeqTrace)
               /\ bOutcome = "returned" /\ bReturn = bSeqResults

\* The first of three files had no readable content and was left out, the
\* second failed with a batch-ending error: the run threw with the third file
\* untouched.
C22_Witness ==
  /\ bEntry = "analyzeFiles" /\ bFiles = 3 /\ bOutcome = "threw"
  /\ bSeqTrace[2].ev = "no-content"
  /\ FatalRejections # {} /\ bSeqIdx = 2

\* The number of events of kind ev in the trace of the sequential loop.
CountEvents(evs) == Cardinality({k \in DOMAIN bSeqTrace : bSeqTrace[k].ev \in evs})

\* The style checks of the sequential loop that have been called and have not
\* settled yet.
ChecksInFlight == CountEvents({"check"}) - CountEvents({"resolved", "rejected"})

BatchPathTaken == \E k \in DOMAIN bLog : bLog[k] = "info:start"

\* C23: analyzeFiles processes a list of at most three files one by one and
\* never calls the batch API for it, and hands a longer list to the batch path;
\* in the sequential path at most one style check is in flight, a file is read
\* only when the file before it is done (it had no content or its check has
\* settled), and the results are in input order.
C23_PathSelectionAndOrder ==
  (bEntry = "analyzeFiles" /\ bPc # "start") =>
    IF bFiles <= 3
    THEN /\ ~BatchPathTaken /\ bBatchCalls = 0 /\ bPromise = "none" /\ ~bTimer
         /\ bPc \in {"seq-read", "seq-check", "done"}
         /\ ChecksInFlight \in {0, 1}
         /\ ChecksInFlight = 1 <=> bPc = "seq-check"
         /\ \A k \in DOMAIN bSeqTrace :
              bSeqTrace[k].ev = "read" =>
                IF bSeqTrace[k].file = 1
                THEN k = 1
                ELSE /\ k > 1
                     /\ bSeqTrace[k - 1].file = bSeqTrace[k].file - 1
                     /\ bSeqTrace[k - 1].ev \in {"no-content", "resolved", "rejected"}
         /\ \A r1, r2 \in DOMAIN bSeqResults :
              r1 < r2 => bSeqResults[r1].filePath < bSeqResults[r2].filePath
    ELSE /\ bSeqTrace = <<>> /\ bCheckCalls = 0 /\ bSeqResults = <<>>
         /\ BatchPathTaken
         /\ bPc \notin {"seq-read", "seq-check"}

\* Three files went through the sequential path: the first and the third
\* yielded a result, the second check was rejected in between.
C23_Witness ==
  /\ bEntry = "analyzeFiles" /\ bFiles = 3 /\ bOutcome = "returned"
  /\ Len(bSeqResults) = 2
  /\ bSeqResults[1].filePath = 1 /\ bSeqResults[2].filePath = 3
  /\ CountEvents({"rejected"}) = 1

\* Four files were handed to the batch path, which processed them.
C23_WitnessBatch ==
  /\ bEntry = "analyzeFiles" /\ bFiles = 4 /\ bBatchCalls = 1 /\ bOutcome = "returned"

\* C24: whatever reaches the catch block of analyzeFilesBatch is logged; the
\* call throws it only if the classifier judges it batch-ending, and otherwise
\* returns the empty list; so a call of the batch path that throws, throws a
\* batch-ending error.
C24_OnlyBatchEndingRaised ==
  /\ bCaught # Absent =>
       /\ bPc = "done"
       /\ bLog[Len(bLog)] = "error:batch-failed"
       /\ IF isRequestEndingError(bCaught)
          THEN bOutcome = "threw" /\ bThrown = bCaught
          ELSE bOutcome = "returned" /\ bReturn = <<>> /\ bThrown = Absent
  /\ (BatchPathTaken /\ bOutcome = "threw") =>
       /\ bCaught # Absent /\ isRequestEndingError(bThrown)

\* The batch promise rejected with a timeout while one request had completed:
\* the call returned the empty list.
C24_Witness ==
  /\ bCaught = TimeoutError /\ bPromise = "rejected" /\ bOutcome = "returned"
  /\ bProgress.completed >= 1

\* styleBatchCheckRequests threw an ordinary error.
C24_WitnessStart ==
  /\ bCaught = StartError /\ bPromise = "none" /\ bOutcome = "returned" /\ bBatchCalls = 1

\* C25: as long as the progress record holds no failed outcome with a
\* batch-ending error, whatever the number of ordinary failures, cancel has not
\* been called, the batch is not cancelled and does not end by cancellation,
\* and when its promise resolves every job has settled and the list is returned.
C25_OrdinaryFailuresNeverCancel ==
  FatalFailed(bProgress.results) = {} =>
    /\ bCancelCalls = 0 /\ ~bCancelled /\ ~bFatalObserved
    /\ bCaught # CancelledError
    /\ bPromise = "resolved" =>
         /\ \A i \in DOMAIN bProgress.results :
              bProgress.results[i].status \in {"completed", "failed"}
         /\ bOutcome = "returned"
         /\ Len(bReturn) = bProgress.completed

\* Two jobs failed with ordinary errors and one completed, progress checks ran
\* in between with failures in the record, and the batch ran to its end.
C25_Witness ==
  /\ bPromise = "resolved" /\ bOutcome = "returned"
  /\ bProgress.failed = 2 /\ bProgress.completed = 1
  /\ FatalFailed(bProgress.results) = {}
  /\ bTicks = 2 /\ bProgressLogs = 2 /\ bCancelCalls = 0

\* The outcomes that carry a batch-ending error without having status 'failed'.
FatalNotFailed(results) ==
  {i \in DOMAIN results :
     results[i].status # "failed" /\ isRequestEndingError(results[i].error)}

\* C26: the check answers found: true exactly when failed > 0 and an outcome
\* with status 'failed' carries a batch-ending error; the error it returns is
\* that of a failed outcome, never that of an outcome with another status; in
\* every other case it answers {found: false, error: null}.
C26_OnlyFailedOutcomesCount ==
  (cMode = "check" /\ cPc = "done") =>
    /\ cCheck.found <=> (cFailed > 0 /\ FatalFailed(cResults) # {})
    /\ cCheck.found =>
         /\ \E i \in FatalFailed(cResults) : cCheck.error = cResults[i].error
         /\ \A i \in FatalNotFailed(cResults) : cCheck.error # cResults[i].error
    /\ ~cCheck.found => cCheck = [found |-> FALSE, error |-> Null]

\* failed > 0, the first outcome is completed but carries a 401, the only
\* failed outcome is ordinary: nothing is found.
C26_Witness ==
  /\ cMode = "check" /\ cPc = "done" /\ cFailed > 0
  /\ Len(cResults) >= 2
  /\ 1 \in FatalNotFailed(cResults)
  /\ FailedCount(cResults) = 1 /\ FatalFailed(cResults) = {}
  /\ cCheck = [found |-> FALSE, error |-> Null]

C27_AttributionInIndexOrder ==
  (bPromise = "resolved" /\ bOutcome = "returned") =>
    /\ \A k \in DOMAIN bReturn :
         /\ bReturn[k].scores = bReturn[k].filePath
         /\ bReturn[k].filePath \in 1..bFiles
    /\ \A k1, k2 \in DOMAIN bReturn :
         k1 # k2 => bReturn[k1].filePath # bReturn[k2].filePath

\* C28: once analyzeFilesBatch has returned or thrown, the progress timer is
\* stopped: no progress check runs any more, so the number of checks, of cancel
\* calls and of progress lines stays what it was.
C28_TimerStoppedOnEveryExit ==
  [][bPc = "done" =>
       /\ ~bTimer
       /\ bTicks' = bTicks /\ bCancelCalls' = bCancelCalls
       /\ bProgressLogs' = bProgressLogs]_vars

\* The same on the exit paths that clear the timer: after the batch promise has
\* resolved, whether the call then returns or throws, no progress check runs.
C28_TimerStoppedAfterResolve ==
  [][(bPc = "done" /\ bPromise # "rejected") =>
       /\ ~bTimer
       /\ bTicks' = bTicks /\ bCancelCalls' = bCancelCalls
       /\ bProgressLogs' = bProgressLogs]_vars

\* The publishing calls handlePostAnalysisActions is to make for its arguments.
ExpectedCalls ==
  IF pResults = 0 THEN <<>>
  ELSE IF pEvent = "push"
       THEN (IF pAddCommitStatus THEN <<"updateCommitStatus">> ELSE <<>>)
  ELSE IF pEvent = "workflow_dispatch" \/ pEvent = "schedule"
       THEN <<"createJobSummary">>
  ELSE IF pEvent = "pull_request"
       THEN (IF pIsPullRequest /\ pPrNumber # 0
             THEN <<"createOrUpdatePRComment">> ELSE <<>>)
  ELSE <<>>

\* C29: once handlePostAnalysisActions has passed its dispatch, the publishing
\* calls made are exactly the one of the event type (none for an empty result
\* list, a disabled commit status, a pull_request event without PR context or
\* number, or another event type); the call never throws, and a rejected
\* publishing call is logged.
C29_OnePublishingActionNeverThrows ==
  /\ pPc \in {"publishing", "done"} => pCalls = ExpectedCalls
  /\ pPc = "publishing" => Len(pCalls) = 1
  /\ pOutcome # "threw"
  /\ pPc = "done" => pOutcome = "returned"
  /\ pSettled = "rejected" =>
       /\ pPc = "done" /\ pLog[Len(pLog)] = "error:failed"
  /\ pSettled # "rejected" => \A k \in DOMAIN pLog : pLog[k] # "error:failed"

\* A pull_request run with results, PR context and number made its one call,
\* the PR comment, which failed: the failure is in the log and the call returned.
C29_Witness ==
  /\ pEvent = "pull_request" /\ pResults > 0 /\ pIsPullRequest /\ pPrNumber # 0
  /\ pPc = "done" /\ pOutcome = "returned"
  /\ pCalls = <<"createOrUpdatePRComment">>
  /\ pSettled = "rejected" /\ pLog[Len(pLog)] = "error:failed"

\* What C30 says of every state of withRetry: with a ceiling below 1 no call,
\* no event and no failure, and the generic error once it has thrown; with a
\* ceiling of at least 1 a first call as soon as it runs and never more than
\* maxRetries calls.
RetryCallBounds ==
  /\ rCfg.maxRetries <= 0 =>
       /\ rCalls = 0 /\ rTrace = <<>> /\ rFailures = <<>> /\ rDelay = 0
       /\ rPc \in {"idle", "thrown"}
       /\ rPc = "thrown" => rThrown = NewError("Operation failed")
  /\ rCfg.maxRetries >= 1 =>
       /\ rCalls <= rCfg.maxRetries
       /\ rPc # "idle" => rCalls >= 1

RetryTerminated == rPc \in {"returned", "thrown"}

C30_WitnessExhausted ==
  /\ rCfg.maxRetries = 3 /\ rPc = "thrown" /\ rCalls = 3

====
